---- MODULE Spec2Model ----
(***************************************************************************)
(* Model of src/main.py: the /chat endpoint of the vitamins chatbot.       *)
(*                                                                         *)
(* Conventions                                                             *)
(*  - a similarity score is an integer number of hundredths (0.7 is 70);   *)
(*  - a Python dict is a function from its keys to its values;             *)
(*  - an optional value (Python None / a missing key) is a sequence of     *)
(*    length 0 or 1: <<>> is None, <<v>> is v;                             *)
(*  - a text that the program builds (the prompt context) is the sequence  *)
(*    of the pieces the f-strings concatenate; a description is a sequence *)
(*    of one-character strings so that slicing it is observable;           *)
(*  - the Ukrainian literals of the source are transliterated to ASCII.    *)
(***************************************************************************)
EXTENDS Integers, Sequences, FiniteSets, TLC

VARIABLES
    pc,               \* position of each request's handler
    body,             \* the JSON body each request arrived with
    request,          \* the validated ChatMessage of each request
    results,          \* the index's response object (results.matches), as it is now
    returned,         \* the matches as the index returned them (history variable)
    products,         \* local `products` of chat
    products_context, \* local `products_context` of chat
    messages,         \* local `messages` of chat
    calls,            \* upstream calls made by the request, in order
    raised,           \* the exception caught by the handler, if any
    outcome,          \* what the request ended with
    globals           \* module-level objects shared by all requests

vars == <<pc, body, request, results, returned, products, products_context,
          messages, calls, raised, outcome, globals>>

(***************************************************************************)
(* Bounds of the model.                                                    *)
(***************************************************************************)
MaxHist == 12
NumRequests == 2

(***************************************************************************)
(* Constants of the program.                                               *)
(***************************************************************************)
Threshold == 70
TopK == 5
HistoryWindow == 10
DescLimit == 200
TopProducts == 3

Requests == 1..NumRequests

Min(a, b) == IF a < b THEN a ELSE b
Max(a, b) == IF a > b THEN a ELSE b

(***************************************************************************)
(* Python primitives.                                                      *)
(***************************************************************************)
None == <<>>
Some(v) == <<v>>

\* d.get(k): None when the key is missing
Get(d, k) == IF k \in DOMAIN d THEN Some(d[k]) ELSE None

\* d[k] = v on a dict
SetItem(d, k, v) == [j \in (DOMAIN d) \cup {k} |-> IF j = k THEN v ELSE d[j]]

\* s[:n]
Prefix(s, n) == SubSeq(s, 1, Min(Len(s), n))

\* s[-n:]
Suffix(s, n) == SubSeq(s, Max(1, Len(s) - n + 1), Len(s))

DigitChar == <<"0", "1", "2", "3", "4", "5", "6", "7", "8", "9">>

\* str(n) of a non-negative int, as its digits
RECURSIVE Digits(_)
Digits(n) == IF n < 10 THEN <<DigitChar[n + 1]>>
             ELSE Append(Digits(n \div 10), DigitChar[(n % 10) + 1])

\* str(e) of an exception: '' without arguments, the argument when there is one
Str(e) == IF e.args = <<>> THEN "" ELSE e.args[1]

SYSTEM_PROMPT == <<"SYSTEM_PROMPT">>

(***************************************************************************)
(* What the outside world supplies: request bodies, the index's replies,   *)
(* the completion model's replies, and upstream failures.                  *)
(***************************************************************************)

\* Product metadata stored in the index (any subset of the fields may exist).
LongDescription(n) == [i \in 1..n |-> IF i <= DescLimit THEN "a" ELSE "b"]

TextValue(chars) == [is_str |-> TRUE, chars |-> chars]
NumberValue == [is_str |-> FALSE, chars |-> <<>>]

Catalog == <<
    [name |-> "Vitamin C", brand |-> "Solgar", price |-> 199, status |-> TRUE,
     description |-> TextValue(<<"a", "b", "c">>), sku |-> "SKU-1", product_id |-> "id-1"],
    [product_id |-> "id-2"],
    [name |-> "Omega 3", brand |-> "NOW", price |-> 1250, status |-> FALSE,
     description |-> TextValue(LongDescription(DescLimit)), sku |-> "SKU-3",
     product_id |-> "id-3"],
    [name |-> "Magnesium", price |-> 0, status |-> TRUE,
     description |-> TextValue(LongDescription(DescLimit + 1)), sku |-> "SKU-4"],
    [name |-> "Zinc", brand |-> "NOW", description |-> NumberValue, sku |-> "SKU-5",
     product_id |-> "id-5"] >>

Scores == {50, 70, 71, 90}

\* The index returns at most top_k matches, by descending similarity.
ScoreLists(top_k) ==
    UNION { { s \in [1..n -> Scores] : \A i \in 1..(n - 1) : s[i] >= s[i + 1] }
            : n \in 0..top_k }

MatchList(scores, first) ==
    [i \in 1..Len(scores) |->
        [id |-> i, score |-> scores[i],
         metadata |-> Catalog[((first + i - 2) % Len(Catalog)) + 1]]]

MatchLists(top_k) ==
    { MatchList(s, first) : s \in ScoreLists(top_k), first \in 1..Len(Catalog) }

AllMatchLists == MatchLists(TopK)

\* A caller-supplied history of n turns.
HistoryList(n) ==
    [i \in 1..n |->
        [role |-> IF i % 2 = 1 THEN "user" ELSE "assistant",
         content |-> <<"turn">> \o Digits(i)]]

JsonDict(d) == [is_dict |-> TRUE, value |-> d]
JsonString == [is_dict |-> FALSE, value |-> [role |-> "", content |-> <<>>]]

JsonList(h) == [kind |-> "list", items |-> [i \in 1..Len(h) |-> JsonDict(h[i])]]

HistoryFields ==
    { [kind |-> "absent", items |-> <<>>],
      [kind |-> "null", items |-> <<>>],
      [kind |-> "scalar", items |-> <<>>],
      [kind |-> "list", items |-> <<JsonDict(HistoryList(1)[1]), JsonString>>],
      [kind |-> "list", items |-> <<JsonDict([content |-> <<"no role">>])>>] }
    \cup { JsonList(HistoryList(n)) : n \in 0..MaxHist }

Bodies ==
    { [message |-> m, conversation_history |-> h] :
        m \in {None, Some(<<"m1">>), Some(<<"m2">>)}, h \in HistoryFields }

\* A small set of bodies and replies, for several requests in flight at once.
FewBodies ==
    { [message |-> m, conversation_history |-> h] :
        m \in {Some(<<"m1">>), Some(<<"m2">>)},
        h \in { [kind |-> "absent", items |-> <<>>], JsonList(HistoryList(1)) } }
    \cup { [message |-> None, conversation_history |-> [kind |-> "null", items |-> <<>>]] }

FewMatchLists ==
    { MatchList(<<>>, 1), MatchList(<<71>>, 1), MatchList(<<71, 50>>, 3) }

\* message.content of the completion: a text, or None
Replies == { Some(<<"reply-1">>), Some(<<"reply-2">>), None }
FewReplies == { Some(<<"reply-1">>) }

UpstreamErrors ==
    { [type |-> "APITimeoutError", args |-> <<"Request timed out.">>],
      [type |-> "RuntimeError", args |-> <<>>] }
FewErrors == { [type |-> "APITimeoutError", args |-> <<"Request timed out.">>] }

(***************************************************************************)
(* Request validation (the ChatMessage model).                             *)
(***************************************************************************)

MessageOnly(b) == b.message # None

\* message: str is required; conversation_history: Optional[List[dict]]
Validate(b) ==
    /\ b.message # None
    /\ b.conversation_history.kind \in {"absent", "null", "list"}
    /\ \A i \in 1..Len(b.conversation_history.items) :
           b.conversation_history.items[i].is_dict

\* the ChatMessage object: an absent history takes the default [], null stays None
ChatMessage(b) ==
    [message |-> b.message[1],
     conversation_history |->
        IF b.conversation_history.kind = "absent" THEN Some(<<>>)
        ELSE IF b.conversation_history.kind = "null" THEN None
        ELSE Some([i \in 1..Len(b.conversation_history.items) |->
                      b.conversation_history.items[i].value])]

NoRequest == [message |-> <<>>, conversation_history |-> None]
NoBody == [message |-> None, conversation_history |-> [kind |-> "absent", items |-> <<>>]]

(***************************************************************************)
(* search_products: the relevance filter.                                  *)
(***************************************************************************)
RelevantInclusive(score) == score >= Threshold

\* if match.score > 0.7
Relevant(score) == score > Threshold

\* The loop over results.matches. `product = match.metadata` is the match's own
\* dict, so `product['score'] = ...` writes into the response object.
RECURSIVE SearchLoop(_, _, _)
SearchLoop(matches, i, found) ==
    IF i > Len(matches) THEN [matches |-> matches, products |-> found]
    ELSE IF Relevant(matches[i].score)
         THEN LET product == SetItem(matches[i].metadata, "score", matches[i].score)
              IN  SearchLoop([matches EXCEPT ![i].metadata = product], i + 1,
                             Append(found, product))
         ELSE SearchLoop(matches, i + 1, found)

search_products(matches) == SearchLoop(matches, 1, <<>>)

(***************************************************************************)
(* format_products_context.                                                *)
(***************************************************************************)
NoProductsFound == "Tovary ne znaideni."
ProductsHeader == "ZNAIDENI TOVARY:\n\n"
NoDescription == <<"N", "e", "m", "a", "i", "e", " ", "o", "p", "y", "s", "u">>
Ellipsis == "..."
BlockEnd == "\n\n"

\* product.get('status') as a condition
Truthy(opt) == opt # None /\ opt[1]

\* {description[:200]}... only when the description is longer than the limit
EllipsizeIfLonger(chars) ==
    IF Len(chars) > DescLimit THEN Prefix(chars, DescLimit) \o <<Ellipsis>> ELSE chars

\* {product.get('description', ...)[:200]}...
Ellipsize(chars) == Prefix(chars, DescLimit) \o <<Ellipsis>>

\* subscripting a description that is not a str raises TypeError
DescriptionRaises(product) ==
    "description" \in DOMAIN product /\ ~product["description"].is_str

FormatProduct(i, product) ==
    LET name  == IF "name" \in DOMAIN product THEN product["name"] ELSE "Bez nazvy"
        brand == IF "brand" \in DOMAIN product THEN product["brand"] ELSE "Ne vkazano"
        price == IF "price" \in DOMAIN product THEN Digits(product["price"])
                 ELSE <<"Ne vkazano">>
        avail == IF Truthy(Get(product, "status")) THEN "V naiavnosti"
                 ELSE "Nemaie v naiavnosti"
        descr == IF "description" \in DOMAIN product THEN product["description"].chars
                 ELSE NoDescription
        sku   == IF "sku" \in DOMAIN product THEN product["sku"] ELSE "N/A"
    IN  Digits(i) \o <<". ", name, "\n">>
        \o <<"   Brend: ", brand, "\n">>
        \o <<"   Tsina: ">> \o price \o <<" hrn\n">>
        \o <<"   Naiavnist: ", avail, "\n">>
        \o <<"   Opys: ">> \o Ellipsize(descr) \o <<"\n">>
        \o <<"   SKU: ", sku, BlockEnd>>

RECURSIVE FormatBlocks(_, _)
FormatBlocks(items, i) ==
    IF i > Len(items) THEN <<>>
    ELSE FormatProduct(i, items[i]) \o FormatBlocks(items, i + 1)

FormatRaises(items) == \E i \in 1..Len(items) : DescriptionRaises(items[i])

TypeError == [type |-> "TypeError", args |-> <<"'float' object is not subscriptable">>]

HeaderOnly(items) == <<ProductsHeader>> \o FormatBlocks(items, 1)

format_products_context(items) ==
    IF Len(items) = 0 THEN <<NoProductsFound>>
    ELSE <<ProductsHeader>> \o FormatBlocks(items, 1)

(***************************************************************************)
(* chat: the message list, the response, the error handler.                *)
(***************************************************************************)
\* request.conversation_history or []
OrEmpty(opt) == IF opt = None THEN <<>> ELSE opt[1]

HistoryLastFive(history) == Suffix(history, 5)

\* conversation_history[-10:]
HistorySlice(history) == Suffix(history, HistoryWindow)

BuildMessages(system_prompt, context, history, user_message) ==
    <<[role |-> "system", content |-> system_prompt],
      [role |-> "system", content |-> context]>>
    \o HistorySlice(history)
    \o <<[role |-> "user", content |-> user_message]>>

ProjectFields == {"name", "price", "brand", "sku", "product_id", "status"}

Project(p) == [k \in ProjectFields |-> Get(p, k)]

AllProducts(items) == items

\* products[:3]
TopSlice(items) == Prefix(items, TopProducts)

ResponseProducts(items) ==
    [i \in 1..Len(TopSlice(items)) |-> Project(TopSlice(items)[i])]

NoOutcome == [status_code |-> 0, detail |-> None, response |-> None, products |-> None]

ChatResponse(text, items) ==
    [status_code |-> 200, detail |-> None, response |-> Some(text), products |-> Some(items)]

HTTPException(status_code, detail) ==
    [status_code |-> status_code, detail |-> Some(detail), response |-> None,
     products |-> None]

\* ChatResponse(response=None, ...) fails validation: response is a required str
ValidationError ==
    [type |-> "ValidationError", args |-> <<"response: none is not an allowed value">>]

ErrorAsReply(e) == ChatResponse(<<Str(e)>>, <<>>)

\* except Exception as e: raise HTTPException(status_code=500, detail=str(e))
ErrorOutcome(e) == HTTPException(500, Str(e))

RetryStage(stage) == stage

\* the handler ends when it raises: no step after the failed one
AfterRaise(stage) == "failed"

(***************************************************************************)
(* The state machine: one handler invocation per request.                  *)
(***************************************************************************)
Call(op, top_k) == [op |-> op, top_k |-> top_k]

ModuleGlobals ==
    [SYSTEM_PROMPT |-> SYSTEM_PROMPT, openai_client |-> "OpenAI",
     index |-> "vitamins-catalog-v2"]

\* a name assigned at module level would be one object for all requests
AssignGlobal(var, r, value) == [q \in DOMAIN var |-> value]

\* a name assigned inside chat/search_products belongs to that invocation
AssignLocal(var, r, value) == [var EXCEPT ![r] = value]

Init ==
    /\ pc = [r \in Requests |-> "idle"]
    /\ body = [r \in Requests |-> NoBody]
    /\ request = [r \in Requests |-> NoRequest]
    /\ results = [r \in Requests |-> <<>>]
    /\ returned = [r \in Requests |-> <<>>]
    /\ products = [r \in Requests |-> <<>>]
    /\ products_context = [r \in Requests |-> <<>>]
    /\ messages = [r \in Requests |-> <<>>]
    /\ calls = [r \in Requests |-> <<>>]
    /\ raised = [r \in Requests |-> None]
    /\ outcome = [r \in Requests |-> NoOutcome]
    /\ globals = ModuleGlobals

\* the except clause of chat
Fail(r, stage, e) ==
    /\ pc' = [pc EXCEPT ![r] = AfterRaise(stage)]
    /\ raised' = [raised EXCEPT ![r] = Some(e)]
    /\ outcome' = [outcome EXCEPT ![r] = ErrorOutcome(e)]

\* POST /chat arrives: the body is validated before chat runs
Receive(r, bodies) ==
    /\ pc[r] = "idle"
    /\ \E b \in bodies :
        /\ body' = [body EXCEPT ![r] = b]
        /\ IF Validate(b)
           THEN /\ pc' = [pc EXCEPT ![r] = "embed"]
                /\ request' = [request EXCEPT ![r] = ChatMessage(b)]
                /\ outcome' = outcome
           ELSE /\ pc' = [pc EXCEPT ![r] = "rejected"]
                /\ request' = request
                /\ outcome' = [outcome EXCEPT ![r] =
                       HTTPException(422, "validation error")]
    /\ UNCHANGED <<results, returned, products, products_context, messages, calls,
                   raised, globals>>

\* get_embedding: openai_client.embeddings.create
GetEmbedding(r, errors) ==
    /\ pc[r] = "embed"
    /\ calls' = [calls EXCEPT ![r] = Append(@, Call("embeddings.create", 0))]
    /\ \/ /\ pc' = [pc EXCEPT ![r] = "search"]
          /\ UNCHANGED <<raised, outcome>>
       \/ \E e \in errors : Fail(r, "embed", e)
    /\ UNCHANGED <<body, request, results, returned, products, products_context, messages,
                   globals>>

\* index.query, the filter loop, format_products_context and the message list
Query(r, top_k, matchLists, errors) ==
    /\ pc[r] = "search"
    /\ calls' = [calls EXCEPT ![r] = Append(@, Call("index.query", top_k))]
    /\ \/ \E matches \in matchLists :
            LET found == search_products(matches)
                history == OrEmpty(request[r].conversation_history)
                context == format_products_context(found.products)
            IN  /\ Len(matches) <= top_k
                /\ returned' = [returned EXCEPT ![r] = matches]
                /\ results' = [results EXCEPT ![r] = found.matches]
                /\ products' = AssignLocal(products, r, found.products)
                /\ IF FormatRaises(found.products)
                   THEN /\ Fail(r, "search", TypeError)
                        /\ UNCHANGED <<products_context, messages>>
                   ELSE /\ products_context' = AssignLocal(products_context, r, context)
                        /\ messages' = AssignLocal(messages, r,
                               BuildMessages(globals.SYSTEM_PROMPT, context, history,
                                             request[r].message))
                        /\ pc' = [pc EXCEPT ![r] = "complete"]
                        /\ UNCHANGED <<raised, outcome>>
       \/ /\ \E e \in errors : Fail(r, "search", e)
          /\ UNCHANGED <<results, returned, products, products_context, messages>>
    /\ UNCHANGED <<body, request, globals>>

\* openai_client.chat.completions.create and the ChatResponse
Complete(r, replies, errors) ==
    /\ pc[r] = "complete"
    /\ calls' = [calls EXCEPT ![r] = Append(@, Call("chat.completions.create", 0))]
    /\ \/ \E reply \in replies :
            IF reply = None
            THEN Fail(r, "complete", ValidationError)
            ELSE /\ pc' = [pc EXCEPT ![r] = "done"]
                 /\ outcome' = [outcome EXCEPT ![r] =
                        ChatResponse(reply[1], ResponseProducts(products[r]))]
                 /\ raised' = raised
       \/ \E e \in errors : Fail(r, "complete", e)
    /\ UNCHANGED <<body, request, results, returned, products, products_context, messages,
                   globals>>

\* the response is sent and the invocation's objects are dropped
Finish(r) ==
    /\ pc[r] \in {"done", "failed", "rejected"}
    /\ pc' = [pc EXCEPT ![r] = "idle"]
    /\ body' = [body EXCEPT ![r] = NoBody]
    /\ request' = [request EXCEPT ![r] = NoRequest]
    /\ results' = [results EXCEPT ![r] = <<>>]
    /\ returned' = [returned EXCEPT ![r] = <<>>]
    /\ products' = [products EXCEPT ![r] = <<>>]
    /\ products_context' = [products_context EXCEPT ![r] = <<>>]
    /\ messages' = [messages EXCEPT ![r] = <<>>]
    /\ calls' = [calls EXCEPT ![r] = <<>>]
    /\ raised' = [raised EXCEPT ![r] = None]
    /\ outcome' = [outcome EXCEPT ![r] = NoOutcome]
    /\ UNCHANGED globals

\* one request at a time, with the full range of inputs
Next ==
    \/ Receive(1, Bodies)
    \/ GetEmbedding(1, UpstreamErrors)
    \/ Query(1, TopK, AllMatchLists, UpstreamErrors)
    \/ Complete(1, Replies, UpstreamErrors)
    \/ Finish(1)

Spec == Init /\ [][Next]_vars

\* several requests in flight, interleaved at the upstream calls
NextMany ==
    \E r \in Requests :
        \/ Receive(r, FewBodies)
        \/ GetEmbedding(r, FewErrors)
        \/ Query(r, TopK, FewMatchLists, FewErrors)
        \/ Complete(r, FewReplies, FewErrors)
        \/ Finish(r)

SpecMany == Init /\ [][NextMany]_vars

(***************************************************************************)
(* Properties.                                                             *)
(***************************************************************************)

\* indices of the matches above the threshold, and their rank among them
Kept(ms) == { i \in 1..Len(ms) : ms[i].score > 70 }
Rank(ms, i) == Cardinality({ k \in Kept(ms) : k <= i })
KeptAt(ms, j) == CHOOSE i \in Kept(ms) : Rank(ms, i) = j

\* the history chat works with
History(r) ==
    IF request[r].conversation_history = None THEN <<>>
    ELSE request[r].conversation_history[1]

\* index.query returned (the request is past the search step)
QueryReturned(r) ==
    \/ pc[r] \in {"complete", "done"}
    \/ pc[r] = "failed" /\ (Len(calls[r]) = 3 \/ raised[r] = Some(TypeError))

\* the product blocks of a rendered context: each ends with a blank line
BlockEnds(ctx) == { i \in 1..Len(ctx) : ctx[i] = "\n\n" }
BlockEndAt(ctx, j) ==
    CHOOSE i \in BlockEnds(ctx) : Cardinality({ k \in BlockEnds(ctx) : k <= i }) = j
Block(ctx, j) ==
    SubSeq(ctx, IF j = 1 THEN 2 ELSE BlockEndAt(ctx, j - 1) + 1, BlockEndAt(ctx, j))
IsNewline(token) == token \in {"\n", "\n\n"}
LastText(blk) == blk[CHOOSE i \in 1..Len(blk) :
                        /\ ~IsNewline(blk[i])
                        /\ \A k \in (i + 1)..Len(blk) : IsNewline(blk[k])]
IndexOf(blk, token) == CHOOSE i \in 1..Len(blk) : blk[i] = token

IsPrefix(s, t) == Len(s) <= Len(t) /\ s = SubSeq(t, 1, Len(s))

\* C1: search_products returns exactly the matches with score > 0.7, in the
\* upstream order, each with its score attached: none with score <= 0.7 (0.7
\* itself is dropped), none above 0.7 left out; the filter itself never fails,
\* so an empty match list gives an empty result and no error.
C1_FilterExact ==
    \A r \in Requests :
        LET ms == returned[r]
            ps == products[r]
        IN  /\ Len(ps) = Cardinality(Kept(ms))
            /\ \A j \in 1..Len(ps) : ps[j]["score"] > 70
            /\ \A i \in Kept(ms) :
                LET p == ps[Rank(ms, i)]
                IN  /\ p["score"] = ms[i].score
                    /\ DOMAIN p = (DOMAIN returned[r][i].metadata) \cup {"score"}
                    /\ \A k \in (DOMAIN returned[r][i].metadata) \ {"score"} :
                           p[k] = returned[r][i].metadata[k]
            /\ (raised[r] = Some(TypeError) => Len(ps) > 0)
            /\ (pc[r] \in {"complete", "done"} /\ ms = <<>> => ps = <<>>)

C1_Witness ==
    \E r \in Requests :
        /\ pc[r] = "complete"
        /\ \E i \in 1..Len(returned[r]) : returned[r][i].score = 70
        /\ \E i \in 1..Len(returned[r]) : returned[r][i].score = 50
        /\ Len(products[r]) = 2
        /\ Len(returned[r]) = 5

C3_ResponseProducts ==
    \A r \in Requests :
        pc[r] = "done" =>
            LET ms == returned[r]
                m == Cardinality(Kept(ms))
                ctx == messages[r][2].content
            IN  /\ outcome[r].products # None
                /\ Len(outcome[r].products[1]) = (IF m < 3 THEN m ELSE 3)
                /\ Cardinality(BlockEnds(ctx)) = m
                /\ \A j \in 1..Len(outcome[r].products[1]) :
                    LET out == outcome[r].products[1][j]
                        md == ms[KeptAt(ms, j)].metadata
                    IN  /\ DOMAIN out = {"name", "price", "brand", "sku", "product_id",
                                         "status"}
                        /\ \A f \in DOMAIN out :
                               out[f] = IF f \in DOMAIN md THEN <<md[f]>> ELSE <<>>
                        /\ Block(ctx, j)[3] =
                               (IF "name" \in DOMAIN md THEN md["name"] ELSE "Bez nazvy")

C3_Witness ==
    \E r \in Requests :
        /\ pc[r] = "done"
        /\ Len(products[r]) = 4
        /\ Len(returned[r]) = 5
        /\ Len(outcome[r].products[1]) = 3

\* C4: a request in which any step raised ends as one HTTP 500 whose detail is
\* str(e), with no response text and no products; a 200 response exists only
\* when no step raised and all three upstream calls were made.
C4_FailureIsError ==
    \A r \in Requests :
        /\ raised[r] # None =>
            /\ pc[r] = "failed"
            /\ outcome[r].status_code = 500
            /\ outcome[r].detail =
                   <<IF raised[r][1].args = <<>> THEN "" ELSE raised[r][1].args[1]>>
            /\ outcome[r].response = None
            /\ outcome[r].products = None
        /\ pc[r] = "failed" => raised[r] # None
        /\ outcome[r].status_code = 200 =>
            /\ raised[r] = None
            /\ pc[r] = "done"
            /\ Len(calls[r]) = 3
            /\ outcome[r].detail = None
            /\ outcome[r].response # None
            /\ outcome[r].products # None

C4_Witness ==
    \E r \in Requests :
        /\ pc[r] = "failed"
        /\ Len(calls[r]) = 3
        /\ raised[r] = Some([type |-> "APITimeoutError", args |-> <<"Request timed out.">>])
        /\ Len(products[r]) > 0
        /\ outcome[r].detail = <<"Request timed out.">>

\* C5: when no match is above 0.7 (or there is no match) the request does not
\* fail for that reason: the context is the 'no products found' sentinel, it is
\* the second system message, the completion is still called, and a success
\* carries the model's reply and an empty products list.
C5_NoResults ==
    \A r \in Requests :
        (QueryReturned(r) /\ Kept(returned[r]) = {}) =>
            /\ raised[r] # Some(TypeError)
            /\ products_context[r] = <<"Tovary ne znaideni.">>
            /\ messages[r] # <<>>
            /\ messages[r][2] = [role |-> "system", content |-> <<"Tovary ne znaideni.">>]
            /\ (pc[r] = "failed" => Len(calls[r]) = 3)
            /\ (pc[r] = "done" =>
                   /\ calls[r][3].op = "chat.completions.create"
                   /\ outcome[r].status_code = 200
                   /\ outcome[r].response # None
                   /\ outcome[r].products = Some(<<>>))

C5_Witness ==
    \E r \in Requests :
        /\ pc[r] = "done"
        /\ Len(returned[r]) = 2
        /\ Kept(returned[r]) = {}
        /\ outcome[r].products = Some(<<>>)
        /\ outcome[r].response = Some(<<"reply-1">>)

\* C6 as stated: the sentinel for the empty list, otherwise one numbered block
\* per product, and every block ends with the ellipsis marker.
C6_BlockEndsWithEllipsis ==
    \A r \in Requests :
        products_context[r] # <<>> =>
            IF Len(products[r]) = 0
            THEN products_context[r] = <<"Tovary ne znaideni.">>
            ELSE /\ Cardinality(BlockEnds(products_context[r])) = Len(products[r])
                 /\ \A j \in 1..Len(products[r]) :
                        LastText(Block(products_context[r], j)) = "..."

\* C6 amended: the sentinel for the empty list, otherwise one numbered block per
\* product in input order; in every block the description line is the first
\* min(len, 200) characters of the description (of the placeholder when the
\* description is missing) followed by the ellipsis marker, whatever the length,
\* and the line after it, the SKU line, is the last line of the block.
C6_EllipsisAfterDescription ==
    \A r \in Requests :
        products_context[r] # <<>> =>
            IF Len(products[r]) = 0
            THEN products_context[r] = <<"Tovary ne znaideni.">>
            ELSE /\ Cardinality(BlockEnds(products_context[r])) = Len(products[r])
                 /\ \A j \in 1..Len(products[r]) :
                     LET blk == Block(products_context[r], j)
                         p == products[r][j]
                         o == IndexOf(blk, "   Opys: ")
                         s == IndexOf(blk, "   SKU: ")
                         d == IF "description" \in DOMAIN p THEN p["description"].chars
                              ELSE NoDescription
                         n == IF Len(d) < 200 THEN Len(d) ELSE 200
                     IN  /\ blk[1] = DigitChar[j + 1]
                         /\ blk[3] = (IF "name" \in DOMAIN p THEN p["name"] ELSE "Bez nazvy")
                         /\ s = Len(blk) - 2
                         /\ blk[s - 1] = "\n"
                         /\ blk[s - 2] = "..."
                         /\ s - 3 - o = n
                         /\ \A k \in 1..n : blk[o + k] = d[k]
                         /\ LastText(blk) = (IF "sku" \in DOMAIN p THEN p["sku"] ELSE "N/A")

C6_Witness ==
    \E r \in Requests :
        /\ pc[r] = "complete"
        /\ \E j \in 1..Len(products[r]) : "description" \notin DOMAIN products[r][j]
        /\ \E j \in 1..Len(products[r]) :
               /\ "description" \in DOMAIN products[r][j]
               /\ Len(products[r][j]["description"].chars) > 200
        /\ \E j \in 1..Len(products[r]) :
               /\ "description" \in DOMAIN products[r][j]
               /\ Len(products[r][j]["description"].chars) < 200

\* C7: the handler never mutates a product record the index returned: the
\* metadata of every match is what it was when the index returned it.
C7_RecordsReadOnly ==
    \A r \in Requests : results[r] = returned[r]

\* everything a request owns
Locals(r) ==
    <<pc[r], body[r], request[r], results[r], returned[r], products[r],
      products_context[r], messages[r], calls[r], raised[r], outcome[r]>>

\* equal inputs give equal message lists and responses
OwnInputsDecide ==
    \A r1, r2 \in Requests :
        (request[r1] = request[r2] /\ returned[r1] = returned[r2]) =>
            /\ (messages[r1] # <<>> /\ messages[r2] # <<>> => messages[r1] = messages[r2])
            /\ (pc[r1] = "done" /\ pc[r2] = "done"
                /\ outcome[r1].response = outcome[r2].response
                    => outcome[r1] = outcome[r2])

\* C8: with several requests in flight, a step of one request changes nothing
\* of another request, the module-level objects never change, and a request's
\* message list and response are determined by its own message, history and
\* upstream replies.
C8_Isolation ==
    /\ [](globals = ModuleGlobals /\ OwnInputsDecide)
    /\ [][\A r \in Requests : pc'[r] = pc[r] => Locals(r)' = Locals(r)]_vars

C8_Witness ==
    /\ pc[1] = "complete"
    /\ pc[2] = "search"
    /\ request[1] # request[2]
    /\ Len(products[1]) = 1
    /\ products[2] = <<>>

\* a body the ChatMessage schema does not accept
BodyInvalid(b) ==
    \/ b.message = None
    \/ b.conversation_history.kind = "scalar"
    \/ \E i \in 1..Len(b.conversation_history.items) :
           ~b.conversation_history.items[i].is_dict

\* C9: a body that fails validation (message missing, or conversation_history
\* not a list of mappings) is answered with a client error; the handler does
\* not run: no upstream call is made and the answer is not the 500 failure.
C9_InvalidBodyRejected ==
    \A r \in Requests :
        (pc[r] # "idle" /\ BodyInvalid(body[r])) =>
            /\ pc[r] = "rejected"
            /\ calls[r] = <<>>
            /\ outcome[r].status_code \in 400..499
            /\ raised[r] = None
            /\ messages[r] = <<>>
            /\ outcome[r].response = None

C9_Witness ==
    \E r \in Requests :
        /\ pc[r] = "rejected"
        /\ body[r].message # None
        /\ \E i \in 1..Len(body[r].conversation_history.items) :
               ~body[r].conversation_history.items[i].is_dict
        /\ calls[r] = <<>>

\* the upstream calls of a successful request
ExpectedCalls ==
    <<[op |-> "embeddings.create", top_k |-> 0],
      [op |-> "index.query", top_k |-> 5],
      [op |-> "chat.completions.create", top_k |-> 0]>>

CallsInOrder ==
    \A r \in Requests :
        /\ IsPrefix(calls[r], ExpectedCalls)
        /\ (Len(calls[r]) = 3 =>
               /\ messages[r] # <<>>
               /\ products_context[r] = format_products_context(products[r])
               /\ messages[r][2].content = products_context[r])

OneCallAtATime ==
    \A r \in Requests :
        /\ (calls'[r] # calls[r] =>
               \/ calls'[r] = <<>>
               \/ /\ Len(calls[r]) < 3
                  /\ calls'[r] = Append(calls[r], ExpectedCalls[Len(calls[r]) + 1]))
        /\ (raised[r] # None => calls'[r] = calls[r] \/ calls'[r] = <<>>)

\* C10: the upstream calls of a request are made in the order embedding,
\* vector search with top_k = 5, completion, each at most once; the completion
\* is called only with the formatted context in the message list; after a step
\* has failed no further call is made.
C10_CallOrder == []CallsInOrder /\ [][OneCallAtATime]_vars

C10_Witness ==
    \E r \in Requests :
        /\ pc[r] = "failed"
        /\ Len(calls[r]) = 2
        /\ raised[r] # None
        /\ raised[r] # Some(TypeError)

====
